---- MODULE Spec2Model ----
(***************************************************************************)
(* UE session store: SessionRepository (Redis-backed record store with two *)
(* secondary index sets) and the SessionService.CreateSession wrapper.     *)
(* Every Redis command is one atomic step; a pipeline is a sequence of     *)
(* such steps that other clients and key expiry may interleave with.       *)
(***************************************************************************)
EXTENDS Integers, Sequences, FiniteSets, TLC

\* ---------------------------------------------------------------- bounds
\* session.default_ttl, counted in clock ticks
DefaultTTL == 2
\* the clock stops after this many ticks
MaxTime == 3
\* nested Get frames a goroutine stack holds before it overflows
MaxDepth == 2
\* store failures (connection errors) injected in one behaviour
MaxFail == 1
\* operations the callers invoke in one behaviour
MaxCalls == 3
\* the longest duration a configuration file gives, in clock ticks
MaxDuration == 3

\* ---------------------------------------------------------------- values
TMSI_A == "12345678"
TMSI_B == "87654321"
IMSI_1 == "123456789012345"
IMSI_2 == "543210987654321"
MSISDN_1 == "1234567890"
MSISDN_2 == "0987654321"
\* identifiers below the lengths CreateSession asks for
TMSI_Short == "123"
IMSI_Short == "1234567890123"
MSISDN_Short == "123456789"

TMSIs == {TMSI_A, TMSI_B, TMSI_Short}
IMSIs == {IMSI_1, IMSI_2, IMSI_Short}
MSISDNs == {MSISDN_1, MSISDN_2, MSISDN_Short}

\* time.Time{}: the zero time; the clock starts after it
ZeroTime == 0

\* the callers (HTTP handlers, tests, other processes) and the goroutine
\* that runs cleanupExpiredIndex
Callers == {"c1", "c2"}
Cleaner == "gc"
Procs == Callers \cup {Cleaner}

\* ---------------------------------------------------------------- domain
\* domain.Session (the fields the store reads or that tell records apart)
\* a []string: nil, or a list (which may be empty)
NilCaps == [nil |-> TRUE, v |-> << >>]
Caps(v) == [nil |-> FALSE, v |-> v]
Capabilities == {NilCaps, Caps(<< >>), Caps(<<"5G", "4G">>)}

\* UEState and Capabilities start as their zero values
Session(t, i, m, at, lu, g) ==
    [tmsi |-> t, imsi |-> i, msisdn |-> m, attach |-> at, last |-> lu, gnb |-> g,
     state |-> "", caps |-> NilCaps]

\* the JSON text of a []string: null for nil, an array otherwise
RECURSIVE JSONItems(_)
JSONItems(v) ==
    IF v = << >> THEN ""
    ELSE IF Len(v) = 1 THEN "\"" \o v[1] \o "\""
    ELSE "\"" \o v[1] \o "\"," \o JSONItems(Tail(v))
JSONText == [c \in Capabilities |-> IF c.nil THEN "null" ELSE "[" \o JSONItems(c.v) \o "]"]
EncodeCaps(c) == JSONText[c]
\* and back: null leaves the slice nil
DecodeCaps(j) == CHOOSE c \in Capabilities : EncodeCaps(c) = j

\* the zero value Session{}
NoSession == Session("", "", "", ZeroTime, ZeroTime, "")

\* json.Marshal(session): the stored string, one member per field
Marshal(s) ==
    <<s.tmsi, s.imsi, s.msisdn, s.attach, s.last, s.gnb, s.state, EncodeCaps(s.caps)>>

\* json.Unmarshal(data, &session)
Unmarshal(d) ==
    [Session(d[1], d[2], d[3], d[4], d[5], d[6])
        EXCEPT !.state = d[7], !.caps = DecodeCaps(d[8])]

\* RedisKeys
SessionKey(tmsi) == "sess:" \o tmsi
IMSIIndexKey(imsi) == "idx:imsi:" \o imsi
MSISDNIndexKey(msisdn) == "idx:msisdn:" \o msisdn

Keys == {SessionKey(t) : t \in TMSIs}
          \cup {IMSIIndexKey(i) : i \in IMSIs}
          \cup {MSISDNIndexKey(m) : m \in MSISDNs}

\* SessionRepository.validateSession
validateSession(s) ==
    IF s.tmsi = "" THEN "ErrInvalidTMSI"
    ELSE IF s.imsi = "" THEN "ErrInvalidIMSI"
    ELSE IF s.msisdn = "" THEN "ErrInvalidMSISDN"
    ELSE "nil"

\* SessionService.validateSessionForCreation
validateSessionForCreation(s) ==
    IF s.tmsi = "" THEN "ErrInvalidTMSI"
    ELSE IF s.imsi = "" THEN "ErrInvalidIMSI"
    ELSE IF s.msisdn = "" THEN "ErrInvalidMSISDN"
    ELSE IF Len(s.tmsi) < 4 THEN "error"
    ELSE IF Len(s.imsi) < 14 THEN "error"
    ELSE IF Len(s.msisdn) < 10 THEN "error"
    ELSE "nil"

\* ---------------------------------------------------------------- state
VARIABLES
    db,        \* Redis: key -> [kind, str, set, ttl]
    now,       \* the clock
    nfail,     \* store failures so far
    pc,        \* per process: where it is in its operation
    op,        \* per process: the operation and its arguments
    stack,     \* per process: sessions read by the nested Get frames
    pipe,      \* per process: commands of the pipeline not yet applied
    res,       \* per process: what the operation returned
    cleanups,  \* TMSIs for which `go cleanupExpiredIndex` was issued
    createdOk, \* per TMSI: a Create succeeded, no Delete or expiry since
    ncalls,    \* operations invoked so far
    config     \* main: the configuration and how far the start got

vars == <<db, now, nfail, pc, op, stack, pipe, res, cleanups, createdOk, ncalls,
         config>>

\* a key that does not exist
NoKey == [kind |-> "none", str |-> <<>>, set |-> {}, ttl |-> 0]
\* ttl of a key without expiry (Redis answers -1)
NoExpiry == -1

Exists(k) == db[k].kind # "none"
Live(t) == db[SessionKey(t)].kind = "string"
Stored(t) == Unmarshal(db[SessionKey(t)].str)
Members(k) == db[k].set

\* ---------------------------------------------------------------- Redis
\* the value of the store after one command
SetCmd(k, data) == [c |-> "SET", k |-> k, data |-> data, m |-> ""]
DelCmd(k) == [c |-> "DEL", k |-> k, data |-> <<>>, m |-> ""]
SAddCmd(k, m) == [c |-> "SADD", k |-> k, data |-> <<>>, m |-> m]
SRemCmd(k, m) == [c |-> "SREM", k |-> k, data |-> <<>>, m |-> m]
ExpireCmd(k) == [c |-> "EXPIRE", k |-> k, data |-> <<>>, m |-> ""]

\* SADD creates the set without expiry; an existing set keeps its ttl
RedisSAdd(d, k, m) ==
    [d EXCEPT ![k] = [kind |-> "set", str |-> <<>>, set |-> d[k].set \cup {m},
                      ttl |-> IF d[k].kind = "none" THEN NoExpiry ELSE d[k].ttl]]

\* SREM of the last member removes the key
RedisSRem(d, k, m) ==
    IF d[k].set \ {m} = {} THEN [d EXCEPT ![k] = NoKey]
    ELSE [d EXCEPT ![k].set = d[k].set \ {m}]

\* EXPIRE of a missing key does nothing
RedisExpire(d, k) ==
    IF d[k].kind = "none" THEN d ELSE [d EXCEPT ![k].ttl = DefaultTTL]

\* SET key value EX ttl
RedisSet(d, k, data) ==
    [d EXCEPT ![k] = [kind |-> "string", str |-> data, set |-> {}, ttl |-> DefaultTTL]]

RedisDel(d, k) == [d EXCEPT ![k] = NoKey]

Apply(d, cmd) ==
    CASE cmd.c = "SET" -> RedisSet(d, cmd.k, cmd.data)
      [] cmd.c = "DEL" -> RedisDel(d, cmd.k)
      [] cmd.c = "SADD" -> RedisSAdd(d, cmd.k, cmd.m)
      [] cmd.c = "SREM" -> RedisSRem(d, cmd.k, cmd.m)
      [] cmd.c = "EXPIRE" -> RedisExpire(d, cmd.k)

\* the store one tick later: ttls count down, keys at zero are reclaimed
Expired(d) ==
    [k \in Keys |->
        IF d[k].kind = "none" \/ d[k].ttl = NoExpiry THEN d[k]
        ELSE IF d[k].ttl = 1 THEN NoKey
        ELSE [d[k] EXCEPT !.ttl = d[k].ttl - 1]]


\* ---------------------------------------------------------------- processes
\* kind: the operation; s: the session argument; id: the TMSI, IMSI or MSISDN
\* argument; old: the session the operation's Get returned; list: tmsiList;
\* made: the session the caller's preceding operation created under this TMSI
\* QuerySessions: its arguments, the query it is in and the sessions the
\* IMSI query returned
NoQuery == [imsi |-> "", msisdn |-> "", by |-> "", first |-> <<>>]
NoOp == [kind |-> "none", s |-> NoSession, id |-> "", old |-> NoSession,
         list |-> <<>>, made |-> NoSession, query |-> NoQuery]
Op(kind, s, id) == [NoOp EXCEPT !.kind = kind, !.s = s, !.id = id]
NoRes == [err |-> "none", sessions |-> <<>>]
Result(err, sessions) == [err |-> err, sessions |-> sessions]

\* a process may be given a new operation
Ready(p) == pc[p] \in {"idle", "done"} /\ ncalls < MaxCalls

\* the process p moves on; every other process stays where it is
Goto(p, npc, nop, nstack, npipe, nres) ==
    /\ pc' = [pc EXCEPT ![p] = npc]
    /\ op' = [op EXCEPT ![p] = nop]
    /\ stack' = [stack EXCEPT ![p] = nstack]
    /\ pipe' = [pipe EXCEPT ![p] = npipe]
    /\ res' = [res EXCEPT ![p] = nres]

\* a cleanup whose outcome is written into the caller's result
ReturnSurfaces(p, nop, err, sessions) ==
    IF p = Cleaner
    THEN /\ pc' = [pc EXCEPT ![p] = "idle"]
         /\ op' = [op EXCEPT ![p] = NoOp]
         /\ stack' = [stack EXCEPT ![p] = << >>]
         /\ pipe' = [pipe EXCEPT ![p] = << >>]
         /\ res' = [q \in Procs |-> IF q \in Callers /\ pc[q] = "done"
                                   THEN Result(err, << >>) ELSE res[q]]
    ELSE Goto(p, "done", nop, <<>>, <<>>, Result(err, sessions))

\* the operation of p returns (the cleanup goroutine just ends)
Return(p, nop, err, sessions) ==
    IF p = Cleaner THEN Goto(p, "idle", NoOp, <<>>, <<>>, NoRes)
    ELSE Goto(p, "done", nop, <<>>, <<>>, Result(err, sessions))

\* ---------------------------------------------------------------- pipelines
\* SessionRepository.Create, the batch
CreatePipe(s) ==
    << SetCmd(SessionKey(s.tmsi), Marshal(s)),
       SAddCmd(IMSIIndexKey(s.imsi), s.tmsi),
       ExpireCmd(IMSIIndexKey(s.imsi)),
       SAddCmd(MSISDNIndexKey(s.msisdn), s.tmsi),
       ExpireCmd(MSISDNIndexKey(s.msisdn)) >>

\* SessionRepository.Update, the batch
UpdatePipe(existing, s) ==
    << SetCmd(SessionKey(s.tmsi), Marshal(s)) >>
    \o (IF existing.imsi # s.imsi
        THEN << SRemCmd(IMSIIndexKey(existing.imsi), s.tmsi),
                SAddCmd(IMSIIndexKey(s.imsi), s.tmsi),
                ExpireCmd(IMSIIndexKey(s.imsi)) >>
        ELSE << >>)
    \o (IF existing.msisdn # s.msisdn
        THEN << SRemCmd(MSISDNIndexKey(existing.msisdn), s.tmsi),
                SAddCmd(MSISDNIndexKey(s.msisdn), s.tmsi),
                ExpireCmd(MSISDNIndexKey(s.msisdn)) >>
        ELSE << >>)

\* a Delete that leaves the MSISDN index entry behind
DeletePipeKeepsMSISDN(session, tmsi) ==
    << DelCmd(SessionKey(tmsi)),
       SRemCmd(IMSIIndexKey(session.imsi), tmsi) >>

\* a Delete that drops the whole IMSI index set
DeletePipeDropsIndex(session, tmsi) ==
    << DelCmd(SessionKey(tmsi)),
       DelCmd(IMSIIndexKey(session.imsi)),
       SRemCmd(MSISDNIndexKey(session.msisdn), tmsi) >>

\* SessionRepository.Delete, the batch
DeletePipe(session, tmsi) ==
    << DelCmd(SessionKey(tmsi)),
       SRemCmd(IMSIIndexKey(session.imsi), tmsi),
       SRemCmd(MSISDNIndexKey(session.msisdn), tmsi) >>

\* a renewal that also stamps the record
RenewPipeTouches(session, tmsi) ==
    << SetCmd(SessionKey(tmsi), Marshal([session EXCEPT !.last = now])),
       ExpireCmd(IMSIIndexKey(session.imsi)),
       ExpireCmd(MSISDNIndexKey(session.msisdn)) >>

\* a renewal that puts the TMSI back into its IMSI index set
RenewPipeAdds(session, tmsi) ==
    << ExpireCmd(SessionKey(tmsi)),
       SAddCmd(IMSIIndexKey(session.imsi), tmsi),
       ExpireCmd(IMSIIndexKey(session.imsi)),
       ExpireCmd(MSISDNIndexKey(session.msisdn)) >>

\* SessionRepository.RenewTTL, the batch
RenewPipe(session, tmsi) ==
    << ExpireCmd(SessionKey(tmsi)),
       ExpireCmd(IMSIIndexKey(session.imsi)),
       ExpireCmd(MSISDNIndexKey(session.msisdn)) >>

\* SessionRepository.cleanupExpiredIndex, the batch
CleanupPipe(session, tmsi) ==
    << SRemCmd(IMSIIndexKey(session.imsi), tmsi),
       SRemCmd(MSISDNIndexKey(session.msisdn), tmsi) >>

\* a CreateSession that leaves a nil capability list as it is
DefaultsKeepsNil(s) ==
    [s EXCEPT !.state = IF s.state = "" THEN "REGISTERED" ELSE s.state]

\* CreateSession sets the default values before it calls Create
Defaults(s) ==
    [s EXCEPT !.state = IF s.state = "" THEN "REGISTERED" ELSE s.state,
              !.caps = IF s.caps.nil THEN Caps(<< >>) ELSE s.caps]

\* Create stamps the caller's session before it marshals it
Stamp(s) ==
    [s EXCEPT !.attach = IF s.attach = ZeroTime THEN now ELSE s.attach,
              !.last = now]

\* ---------------------------------------------------------------- Get
\* an Update that stores the creation timestamp of its argument
AfterGetKeepsInput(p, err, session) ==
    LET o == op[p]
        upd == [o.s EXCEPT !.last = now]
        crt == Stamp(Defaults(o.s))
    IN CASE o.kind = "Get" ->
              Return(p, o, err, IF err = "nil" THEN <<session>> ELSE << >>)
         [] o.kind = "RenewTTL" ->
              IF err # "nil" THEN Return(p, o, err, << >>)
              ELSE Goto(p, "exec", o, << >>, RenewPipe(session, o.id), NoRes)
         [] o.kind = "Update" ->
              IF err # "nil" THEN Return(p, o, err, << >>)
              ELSE Goto(p, "exec", [o EXCEPT !.s = upd, !.old = session], << >>,
                        UpdatePipe(session, upd), NoRes)
         [] o.kind = "Delete" ->
              IF err # "nil" THEN Return(p, o, err, << >>)
              ELSE Goto(p, "exec", [o EXCEPT !.old = session], << >>,
                        DeletePipe(session, o.id), NoRes)
         [] o.kind = "cleanup" ->
              IF err # "nil" THEN Return(p, o, err, << >>)
              ELSE Goto(p, "exec", [o EXCEPT !.old = session], << >>,
                        CleanupPipe(session, o.id), NoRes)
         [] o.kind = "CreateSession" ->
              IF err = "nil" THEN Return(p, o, "AlreadyExists", << >>)
              ELSE Goto(p, "exec", [o EXCEPT !.s = crt], << >>,
                        CreatePipe(crt), NoRes)

\* What the caller of the outermost Get does with (session, err):
\* the rest of Get, RenewTTL, Update, Delete, cleanupExpiredIndex and
\* CreateSession, up to the first command of their batch.
AfterGet(p, err, session) ==
    LET o == op[p]
        upd == [o.s EXCEPT !.last = now, !.attach = session.attach]
        crt == Stamp(Defaults(o.s))
    IN CASE o.kind = "Get" ->
              Return(p, o, err, IF err = "nil" THEN <<session>> ELSE << >>)
         [] o.kind = "RenewTTL" ->
              IF err # "nil" THEN Return(p, o, err, << >>)
              ELSE Goto(p, "exec", o, << >>, RenewPipe(session, o.id), NoRes)
         [] o.kind = "Update" ->
              IF err # "nil" THEN Return(p, o, err, << >>)
              ELSE Goto(p, "exec", [o EXCEPT !.s = upd, !.old = session], << >>,
                        UpdatePipe(session, upd), NoRes)
         [] o.kind = "Delete" ->
              IF err # "nil" THEN Return(p, o, err, << >>)
              ELSE Goto(p, "exec", [o EXCEPT !.old = session], << >>,
                        DeletePipe(session, o.id), NoRes)
         [] o.kind = "cleanup" ->
              IF err # "nil" THEN Return(p, o, err, << >>)
              ELSE Goto(p, "exec", [o EXCEPT !.old = session], << >>,
                        CleanupPipe(session, o.id), NoRes)
         [] o.kind = "CreateSession" ->
              IF err = "nil" THEN Return(p, o, "AlreadyExists", << >>)
              ELSE Goto(p, "exec", [o EXCEPT !.s = crt], << >>,
                        CreatePipe(crt), NoRes)

\* a Get that hands the error of its TTL renewal to its caller
UnwindPropagates(p, err) ==
    LET st == stack[p]
        k == Len(st)
    IN IF k <= 1 THEN AfterGet(p, err, NoSession)
       ELSE Goto(p, "renew", op[p], st, RenewPipe(st[k], op[p].id), NoRes)

\* an Update that creates the record it does not find
UnwindUpserts(p, err) ==
    LET st == stack[p]
        k == Len(st)
    IN IF k = 0 /\ op[p].kind = "Update" /\ err = "NotFound"
       THEN Goto(p, "exec", [op[p] EXCEPT !.s = Stamp(op[p].s)], << >>,
                 CreatePipe(Stamp(op[p].s)), NoRes)
       ELSE IF k = 0 THEN AfterGet(p, err, NoSession)
       ELSE IF k = 1 THEN AfterGet(p, "nil", st[1])
       ELSE Goto(p, "renew", op[p], st, RenewPipe(st[k], op[p].id), NoRes)

\* a Delete that takes a missing record for a deleted one
UnwindDeletesMissing(p, err) ==
    LET st == stack[p]
        k == Len(st)
    IN IF k = 0 /\ op[p].kind = "Delete" /\ err = "NotFound"
       THEN Goto(p, "exec", op[p], << >>,
                 << DelCmd(SessionKey(op[p].id)) >>, NoRes)
       ELSE IF k = 0 THEN AfterGet(p, err, NoSession)
       ELSE IF k = 1 THEN AfterGet(p, "nil", st[1])
       ELSE Goto(p, "renew", op[p], st, RenewPipe(st[k], op[p].id), NoRes)

\* The innermost Get returned err: the RenewTTL that called it returns err,
\* the Get around that one logs it and returns the session it had read.
\* Every RenewTTL further out then runs its batch for the session its own
\* Get returned, innermost first.
Unwind(p, err) ==
    LET st == stack[p]
        k == Len(st)
    IN IF k = 0 THEN AfterGet(p, err, NoSession)
       ELSE IF k = 1 THEN AfterGet(p, "nil", st[1])
       ELSE Goto(p, "renew", op[p], st, RenewPipe(st[k], op[p].id), NoRes)

\* a nested RenewTTL finished (its error, if any, is only printed)
RenewReturns(p) ==
    LET st == SubSeq(stack[p], 1, Len(stack[p]) - 1)
    IN IF Len(st) = 1 THEN AfterGet(p, "nil", st[1])
       ELSE Goto(p, "renew", op[p], st, RenewPipe(st[Len(st)], op[p].id), NoRes)


\* ---------------------------------------------------------------- inputs
\* the sessions a caller passes to Create, CreateSession and Update:
\* two sessions that share an IMSI, the first one again with another IMSI,
\* another MSISDN (the second one's) or only another gNB, and a session
\* without TMSI
Input(t, i, m, g) ==
    [Session(t, i, m, ZeroTime, ZeroTime, g)
        EXCEPT !.state = "REGISTERED", !.caps = Caps(<<"5G", "4G">>)]
Inputs ==
    { Input(TMSI_A, IMSI_1, MSISDN_1, "gNB001"),
      Input(TMSI_B, IMSI_1, MSISDN_2, "gNB001"),
      Input(TMSI_A, IMSI_2, MSISDN_1, "gNB001"),
      Input(TMSI_A, IMSI_1, MSISDN_2, "gNB001"),
      Input(TMSI_A, IMSI_1, MSISDN_1, "gNB002"),
      Input("", IMSI_1, MSISDN_1, "gNB001") }

\* ---------------------------------------------------------------- config
\* config.Config after viper.Unmarshal, and main's position: "load" before
\* config.Load, "fatal" after log.Fatalf, "serving" once the repository
\* is built from cfg.Session
Config(sp, rp, d, mx, mn, m, e) ==
    [ Server |-> [Port |-> sp], Redis |-> [Port |-> rp],
      Session |-> [DefaultTTL |-> d, MaxTTL |-> mx, MinTTL |-> mn],
      main |-> m, err |-> e ]

Ports == {0, 8080, 65536}
Durations == (0 - 1) .. MaxDuration

\* validateConfig without the last comparison
validateConfigNoMin(c) ==
    IF c.Server.Port <= 0 \/ c.Server.Port > 65535 THEN "invalid server port"
    ELSE IF c.Redis.Port <= 0 \/ c.Redis.Port > 65535 THEN "invalid Redis port"
    ELSE IF c.Session.DefaultTTL <= 0 THEN "invalid default TTL"
    ELSE IF c.Session.MaxTTL <= 0 THEN "invalid max TTL"
    ELSE IF c.Session.MinTTL <= 0 THEN "invalid min TTL"
    ELSE IF c.Session.DefaultTTL > c.Session.MaxTTL
    THEN "default TTL cannot be greater than max TTL"
    ELSE "nil"

\* validateConfig
validateConfig(c) ==
    IF c.Server.Port <= 0 \/ c.Server.Port > 65535 THEN "invalid server port"
    ELSE IF c.Redis.Port <= 0 \/ c.Redis.Port > 65535 THEN "invalid Redis port"
    ELSE IF c.Session.DefaultTTL <= 0 THEN "invalid default TTL"
    ELSE IF c.Session.MaxTTL <= 0 THEN "invalid max TTL"
    ELSE IF c.Session.MinTTL <= 0 THEN "invalid min TTL"
    ELSE IF c.Session.DefaultTTL > c.Session.MaxTTL
    THEN "default TTL cannot be greater than max TTL"
    ELSE IF c.Session.DefaultTTL < c.Session.MinTTL
    THEN "default TTL cannot be less than min TTL"
    ELSE "nil"

\* the configuration the store of the other specifications runs with
Serving == Config(8080, 6379, DefaultTTL, DefaultTTL + 1, 1, "serving", "nil")

\* ---------------------------------------------------------------- Init
\* the store before any call
Idle ==
    /\ db = [k \in Keys |-> NoKey]
    /\ now = 1
    /\ nfail = 0
    /\ pc = [p \in Procs |-> "idle"]
    /\ op = [p \in Procs |-> NoOp]
    /\ stack = [p \in Procs |-> << >>]
    /\ pipe = [p \in Procs |-> << >>]
    /\ res = [p \in Procs |-> NoRes]
    /\ cleanups = {}
    /\ createdOk = [t \in TMSIs |-> FALSE]
    /\ ncalls = 0

Init ==
    /\ Idle
    /\ config = Serving

\* ---------------------------------------------------------------- calls
\* what the caller's last operation created, if it was a successful Create
\* of this TMSI and the record is still there
Made(p, tmsi) ==
    IF /\ op[p].kind \in {"Create", "CreateSession"}
       /\ pc[p] = "done"
       /\ res[p].err = "nil"
       /\ op[p].id = tmsi
       /\ tmsi # ""
       /\ Live(tmsi)
    THEN op[p].s ELSE NoSession

\* SessionRepository.Create up to pipe.Exec
CallCreate(p, s) ==
    /\ Ready(p)
    /\ IF validateSession(s) # "nil"
       THEN Return(p, Op("Create", s, s.tmsi), validateSession(s), << >>)
       ELSE Goto(p, "exec",
                 [Op("Create", Stamp(s), s.tmsi) EXCEPT !.made = Made(p, s.tmsi)],
                 << >>, CreatePipe(Stamp(s)), NoRes)
    /\ ncalls' = ncalls + 1
    /\ UNCHANGED <<config, db, now, nfail, cleanups, createdOk>>

\* SessionService.CreateSession up to s.repo.Get
CallCreateSession(p, s) ==
    /\ Ready(p)
    /\ IF validateSessionForCreation(s) # "nil"
       THEN Return(p, Op("CreateSession", s, s.tmsi),
                   validateSessionForCreation(s), << >>)
       ELSE Goto(p, "get",
                 [Op("CreateSession", s, s.tmsi) EXCEPT !.made = Made(p, s.tmsi)],
                 << >>, << >>, NoRes)
    /\ ncalls' = ncalls + 1
    /\ UNCHANGED <<config, db, now, nfail, cleanups, createdOk>>

\* SessionRepository.Update up to r.Get
CallUpdate(p, s) ==
    /\ Ready(p)
    /\ IF validateSession(s) # "nil"
       THEN Return(p, Op("Update", s, s.tmsi), validateSession(s), << >>)
       ELSE Goto(p, "get", Op("Update", s, s.tmsi), << >>, << >>, NoRes)
    /\ ncalls' = ncalls + 1
    /\ UNCHANGED <<config, db, now, nfail, cleanups, createdOk>>

\* Get, Delete and RenewTTL up to the read of the record
CallByTMSI(p, kind, tmsi) ==
    /\ Ready(p)
    /\ IF tmsi = ""
       THEN Return(p, Op(kind, NoSession, tmsi), "ErrInvalidTMSI", << >>)
       ELSE Goto(p, "get", [Op(kind, NoSession, tmsi) EXCEPT !.made = Made(p, tmsi)],
                 << >>, << >>, NoRes)
    /\ ncalls' = ncalls + 1
    /\ UNCHANGED <<config, db, now, nfail, cleanups, createdOk>>

CallGet(p, tmsi) == CallByTMSI(p, "Get", tmsi)
CallDelete(p, tmsi) == CallByTMSI(p, "Delete", tmsi)
CallRenewTTL(p, tmsi) == CallByTMSI(p, "RenewTTL", tmsi)

\* go r.cleanupExpiredIndex(tmsi) starts to run
StartCleanup(tmsi) ==
    /\ tmsi \in cleanups
    /\ pc[Cleaner] = "idle"
    /\ cleanups' = cleanups \ {tmsi}
    /\ Goto(Cleaner, "get", Op("cleanup", NoSession, tmsi), << >>, << >>, NoRes)
    /\ UNCHANGED <<config, db, now, nfail, createdOk, ncalls>>

\* ---------------------------------------------------------------- steps
\* a Get that takes redis.Nil for an answer
GetReadIgnoresNil(p) ==
    /\ pc[p] = "get"
    /\ Len(stack[p]) < MaxDepth
    /\ IF Live(op[p].id)
       THEN Goto(p, "get", op[p], Append(stack[p], Stored(op[p].id)), << >>, NoRes)
       ELSE Unwind(p, "nil")
    /\ UNCHANGED <<config, db, now, nfail, cleanups, createdOk, ncalls>>

\* a Get that reports a missing record as an expired one
GetReadExpired(p) ==
    /\ pc[p] = "get"
    /\ Len(stack[p]) < MaxDepth
    /\ IF Live(op[p].id)
       THEN Goto(p, "get", op[p], Append(stack[p], Stored(op[p].id)), << >>, NoRes)
       ELSE Unwind(p, "Expired")
    /\ UNCHANGED <<config, db, now, nfail, cleanups, createdOk, ncalls>>

\* r.client.Get inside Get: a record is unmarshalled and Get calls RenewTTL,
\* which calls Get again; a missing key is redis.Nil
GetRead(p) ==
    /\ pc[p] = "get"
    /\ Len(stack[p]) < MaxDepth
    /\ IF Live(op[p].id)
       THEN Goto(p, "get", op[p], Append(stack[p], Stored(op[p].id)), << >>, NoRes)
       ELSE Unwind(p, "NotFound")
    /\ UNCHANGED <<config, db, now, nfail, cleanups, createdOk, ncalls>>

\* r.client.Get fails for another reason than a missing key
GetFails(p) ==
    /\ pc[p] = "get"
    /\ Len(stack[p]) < MaxDepth
    /\ nfail < MaxFail
    /\ nfail' = nfail + 1
    /\ Unwind(p, "StoreError")
    /\ UNCHANGED <<config, db, now, cleanups, createdOk, ncalls>>

\* Get -> RenewTTL -> Get -> ... outgrows the goroutine stack: fatal error
StackOverflow(p) ==
    /\ pc[p] = "get"
    /\ Len(stack[p]) = MaxDepth
    /\ Goto(p, "crashed", op[p], stack[p], << >>, NoRes)
    /\ UNCHANGED <<config, db, now, nfail, cleanups, createdOk, ncalls>>

\* the store applies the next command of a pipeline
PipeStep(p) ==
    /\ pc[p] \in {"renew", "exec"}
    /\ pipe[p] # << >>
    /\ db' = Apply(db, Head(pipe[p]))
    /\ pipe' = [pipe EXCEPT ![p] = Tail(pipe[p])]
    /\ UNCHANGED <<config, now, nfail, pc, op, stack, res, cleanups, createdOk, ncalls>>

\* the effect of a returning operation on the history variable
Created(o, err) ==
    IF err = "nil" /\ o.kind \in {"Create", "CreateSession"}
    THEN [createdOk EXCEPT ![o.id] = TRUE]
    ELSE IF err = "nil" /\ o.kind = "Delete"
    THEN [createdOk EXCEPT ![o.id] = FALSE]
    ELSE createdOk

\* pipe.Exec returns without error
PipeReturns(p) ==
    /\ pc[p] \in {"renew", "exec"}
    /\ pipe[p] = << >>
    /\ IF pc[p] = "renew" THEN RenewReturns(p) /\ UNCHANGED createdOk
       ELSE /\ Return(p, op[p], "nil", << >>)
            /\ createdOk' = Created(op[p], "nil")
    /\ UNCHANGED <<config, db, now, nfail, cleanups, ncalls>>

\* a batch whose error is dropped
PipeFailsSilently(p) ==
    /\ pc[p] \in {"renew", "exec"}
    /\ nfail < MaxFail
    /\ nfail' = nfail + 1
    /\ IF pc[p] = "renew" THEN RenewReturns(p)
       ELSE Return(p, op[p], "nil", << >>)
    /\ UNCHANGED <<config, db, now, cleanups, createdOk, ncalls>>

\* pipe.Exec returns an error; the commands not yet applied are lost
PipeFails(p) ==
    /\ pc[p] \in {"renew", "exec"}
    /\ nfail < MaxFail
    /\ nfail' = nfail + 1
    /\ IF pc[p] = "renew" THEN RenewReturns(p)
       ELSE Return(p, op[p], "StoreError", << >>)
    /\ UNCHANGED <<config, db, now, cleanups, createdOk, ncalls>>

\* time passes; Redis reclaims the keys whose ttl ran out
Tick ==
    /\ now < MaxTime
    /\ now' = now + 1
    /\ db' = Expired(db)
    /\ createdOk' = [t \in TMSIs |->
                        createdOk[t] /\ Expired(db)[SessionKey(t)].kind # "none"]
    /\ UNCHANGED <<config, nfail, pc, op, stack, pipe, res, cleanups, ncalls>>


\* ---------------------------------------------------------------- queries
\* the reply of SMEMBERS as a list (Redis fixes no order; the operations
\* below treat the members alike)
TMSIOrder == <<TMSI_A, TMSI_B, TMSI_Short>>
InSet(S) == [t \in TMSIs |-> t \in S]
MembersList(S) == LET in == InSet(S) IN SelectSeq(TMSIOrder, LAMBDA t : in[t])

\* QueryByIMSI / QueryByMSISDN up to SMembers
CallQuery(p, kind, id, err) ==
    /\ Ready(p)
    /\ IF id = ""
       THEN Return(p, Op(kind, NoSession, id), err, << >>)
       ELSE Goto(p, "smembers", Op(kind, NoSession, id), << >>, << >>, NoRes)
    /\ ncalls' = ncalls + 1
    /\ UNCHANGED <<config, db, now, nfail, cleanups, createdOk>>

CallQueryByIMSI(p, imsi) == CallQuery(p, "QueryByIMSI", imsi, "ErrInvalidIMSI")
CallQueryByMSISDN(p, msisdn) ==
    CallQuery(p, "QueryByMSISDN", msisdn, "ErrInvalidMSISDN")

\* the index key a query reads
IndexKey(o) ==
    IF o.kind = "QueryByIMSI" \/ (o.kind = "QuerySessions" /\ o.query.by = "IMSI")
    THEN IMSIIndexKey(o.id)
    ELSE MSISDNIndexKey(o.id)

\* SessionService.isSessionExpired
isSessionExpired(session) == FALSE

\* SessionService.filterActiveSessions
filterActiveSessions(sessions) ==
    SelectSeq(sessions, LAMBDA session : ~isSessionExpired(session))

\* the TMSIs of a slice, and its last session with a given TMSI
TMSIsIn(sessions) == { sessions[n].tmsi : n \in DOMAIN sessions }
LastOf(sessions, tmsi) ==
    sessions[CHOOSE n \in DOMAIN sessions :
                /\ sessions[n].tmsi = tmsi
                /\ \A j \in DOMAIN sessions : j > n => sessions[j].tmsi # tmsi]

\* the orders in which a range over a map may yield its keys
Orders(S) ==
    { q \in [1..Cardinality(S) -> S] :
         \A i, j \in 1..Cardinality(S) : i # j => q[i] # q[j] }

\* a merge that appends the second slice to the first
mergeSessionsAppends(sessions1, sessions2) == { sessions1 \o sessions2 }

\* SessionService.mergeSessions: the slices it may return
mergeSessions(sessions1, sessions2) ==
    LET keys == TMSIsIn(sessions1) \cup TMSIsIn(sessions2)
        sessionMap == [t \in keys |->
                          IF t \in TMSIsIn(sessions2) THEN LastOf(sessions2, t)
                          ELSE LastOf(sessions1, t)]
    IN { [n \in 1..Cardinality(keys) |-> sessionMap[q[n]]] : q \in Orders(keys) }

\* SessionService.QuerySessions up to the first SMembers
CallQuerySessions(p, imsi, msisdn) ==
    /\ Ready(p)
    /\ LET o == [Op("QuerySessions", NoSession, "") EXCEPT
                    !.query = [NoQuery EXCEPT !.imsi = imsi, !.msisdn = msisdn]]
       IN IF imsi # ""
          THEN Goto(p, "smembers", [o EXCEPT !.id = imsi, !.query.by = "IMSI"],
                    << >>, << >>, NoRes)
          ELSE IF msisdn # ""
          THEN Goto(p, "smembers", [o EXCEPT !.id = msisdn, !.query.by = "MSISDN"],
                    << >>, << >>, NoRes)
          ELSE Return(p, o, "nil", filterActiveSessions(<< >>))
    /\ ncalls' = ncalls + 1
    /\ UNCHANGED <<config, db, now, nfail, cleanups, createdOk>>

\* QueryByIMSI / QueryByMSISDN returns: to the caller, or into QuerySessions,
\* which returns an error as it is, goes on to the MSISDN query, merges and
\* filters
QueryReturn(p, err, sessions) ==
    LET o == op[p]
    IN IF o.kind # "QuerySessions" THEN Return(p, o, err, sessions)
       ELSE IF err # "nil" THEN Return(p, o, err, << >>)
       ELSE IF o.query.by = "IMSI" /\ o.query.msisdn # ""
       THEN Goto(p, "smembers",
                 [o EXCEPT !.id = o.query.msisdn, !.list = << >>,
                           !.query.by = "MSISDN", !.query.first = sessions],
                 << >>, << >>, NoRes)
       ELSE IF o.query.by = "MSISDN" /\ o.query.imsi # ""
       THEN \E merged \in mergeSessions(o.query.first, sessions) :
               Return(p, o, "nil", filterActiveSessions(merged))
       ELSE Return(p, o, "nil", filterActiveSessions(sessions))

\* a query that reports an empty index set as a missing session
SMembersNotFound(p) ==
    /\ pc[p] = "smembers"
    /\ LET tmsiList == MembersList(Members(IndexKey(op[p])))
       IN IF tmsiList = << >>
          THEN QueryReturn(p, "NotFound", << >>)
          ELSE Goto(p, "mget", [op[p] EXCEPT !.list = tmsiList], << >>, << >>, NoRes)
    /\ UNCHANGED <<config, db, now, nfail, cleanups, createdOk, ncalls>>

\* r.client.SMembers, and the start of QueryByMultiple
SMembers(p) ==
    /\ pc[p] = "smembers"
    /\ LET tmsiList == MembersList(Members(IndexKey(op[p])))
       IN IF tmsiList = << >>
          THEN QueryReturn(p, "nil", << >>)
          ELSE Goto(p, "mget", [op[p] EXCEPT !.list = tmsiList], << >>, << >>, NoRes)
    /\ UNCHANGED <<config, db, now, nfail, cleanups, createdOk, ncalls>>

\* the session a GET of the batch yields (NoSession stands for redis.Nil)
Reply(tmsi) == IF Live(tmsi) THEN Stored(tmsi) ELSE NoSession

\* QueryByMultiple: the store answers the next GET of the batch
MGet(p) ==
    /\ pc[p] = "mget"
    /\ Len(stack[p]) < Len(op[p].list)
    /\ LET tmsi == op[p].list[Len(stack[p]) + 1]
       IN Goto(p, "mget", op[p], Append(stack[p], Reply(tmsi)), << >>, NoRes)
    /\ UNCHANGED <<config, db, now, nfail, cleanups, createdOk, ncalls>>

\* a resolution that hands out every reply of the batch
FoundAll(replies) == replies

\* the sessions QueryByMultiple returns for the replies it got
Found(replies) == SelectSeq(replies, LAMBDA s : s # NoSession)
\* the TMSIs it hands to cleanupExpiredIndex
Missing(list, replies) == { list[n] : n \in { j \in 1..Len(list) : replies[j] = NoSession } }

\* QueryByMultiple after pipe.Exec: skip the missing records and schedule
\* their cleanup, return the others
QueryReturns(p) ==
    /\ pc[p] = "mget"
    /\ Len(stack[p]) = Len(op[p].list)
    /\ cleanups' = cleanups \cup Missing(op[p].list, stack[p])
    /\ QueryReturn(p, "nil", Found(stack[p]))
    /\ UNCHANGED <<config, db, now, nfail, createdOk, ncalls>>

\* SMembers or the batch of GETs fails
QueryFails(p) ==
    /\ pc[p] \in {"smembers", "mget"}
    /\ nfail < MaxFail
    /\ nfail' = nfail + 1
    /\ QueryReturn(p, "StoreError", << >>)
    /\ UNCHANGED <<config, db, now, cleanups, createdOk, ncalls>>

\* ---------------------------------------------------------------- Next
\* the arguments the callers pass besides sessions
TMSIsOf(In) == {s.tmsi : s \in In} \ {""}
IMSIsOf(In) == {s.imsi : s \in In} \cup {""}
MSISDNsOf(In) == {s.msisdn : s \in In} \cup {""}

\* a caller invokes an operation of the repository
RepoCall(p, In) ==
    \/ \E s \in In : CallUpdate(p, s)
    \/ \E t \in TMSIsOf(In) : CallGet(p, t)
    \/ \E t \in TMSIsOf(In) : CallDelete(p, t)
    \/ \E t \in TMSIsOf(In) : CallRenewTTL(p, t)
    \/ \E i \in IMSIsOf(In) : CallQueryByIMSI(p, i)
    \/ \E m \in MSISDNsOf(In) : CallQueryByMSISDN(p, m)

Step ==
    \E p \in Procs :
        \/ GetRead(p)
        \/ GetFails(p)
        \/ StackOverflow(p)
        \/ PipeStep(p)
        \/ PipeReturns(p)
        \/ PipeFails(p)
        \/ SMembers(p)
        \/ MGet(p)
        \/ QueryReturns(p)
        \/ QueryFails(p)

Cleanup == \E t \in TMSIs : StartCleanup(t)

\* one caller, which uses the repository directly (as its tests do) and
\* CreateSession, with the cleanup goroutine beside it
Next ==
    \/ \E s \in Inputs : CallCreate("c1", s)
    \/ \E s \in Inputs : CallCreateSession("c1", s)
    \/ RepoCall("c1", Inputs)
    \/ Step
    \/ Cleanup
    \/ Tick

Spec == Init /\ [][Next]_vars

\* the sessions of the concurrent callers: one TMSI under two IMSIs
ConcInputs ==
    { Input(TMSI_A, IMSI_1, MSISDN_1, "gNB001"),
      Input(TMSI_A, IMSI_2, MSISDN_1, "gNB001") }

\* two callers at once, which create through CreateSession (as the HTTP
\* handlers do), update, delete and query
NextConc ==
    \/ \E p \in Callers, s \in ConcInputs : CallCreateSession(p, s)
    \/ \E p \in Callers, s \in ConcInputs : CallUpdate(p, s)
    \/ \E p \in Callers : CallDelete(p, TMSI_A)
    \/ \E p \in Callers, i \in IMSIs : CallQueryByIMSI(p, i)
    \/ \E p \in Callers : CallQueryByMSISDN(p, MSISDN_1)
    \/ Step
    \/ Cleanup
    \/ Tick

SpecConc == Init /\ [][NextConc]_vars

\* the sessions that try the validation and the defaults: one with nothing but the three
\* identifiers, one with every field set (creation timestamp included), and
\* the first one with each identifier in turn empty or too short
Bare(t, i, m) == Session(t, i, m, ZeroTime, ZeroTime, "gNB001")
ArgInputs ==
    { Bare(TMSI_A, IMSI_1, MSISDN_1),
      [Input(TMSI_A, IMSI_1, MSISDN_1, "gNB001") EXCEPT !.attach = 1],
      Bare("", IMSI_1, MSISDN_1),
      Bare(TMSI_Short, IMSI_1, MSISDN_1),
      Bare(TMSI_A, "", MSISDN_1),
      Bare(TMSI_A, IMSI_Short, MSISDN_1),
      Bare(TMSI_A, IMSI_1, ""),
      Bare(TMSI_A, IMSI_1, MSISDN_Short) }

\* one caller that creates and updates with these sessions; the store does
\* not fail
NextArgs ==
    \/ \E s \in ArgInputs : CallCreate("c1", s)
    \/ \E s \in ArgInputs : CallCreateSession("c1", s)
    \/ \E s \in ArgInputs : CallUpdate("c1", s)
    \/ GetRead("c1")
    \/ StackOverflow("c1")
    \/ PipeStep("c1")
    \/ PipeReturns("c1")
    \/ Tick

SpecArgs == Init /\ [][NextArgs]_vars

\* two callers on one TMSI: the session is created, read, renewed and
\* deleted
NextRenew ==
    \/ CallCreate("c1", Input(TMSI_A, IMSI_1, MSISDN_1, "gNB001"))
    \/ \E p \in Callers : CallGet(p, TMSI_A)
    \/ \E p \in Callers : CallRenewTTL(p, TMSI_A)
    \/ \E p \in Callers : CallDelete(p, TMSI_A)
    \/ \E p \in Callers :
          \/ GetRead(p)
          \/ GetFails(p)
          \/ StackOverflow(p)
          \/ PipeStep(p)
          \/ PipeReturns(p)
          \/ PipeFails(p)
    \/ Tick

SpecRenew == Init /\ [][NextRenew]_vars

\* config.Load: the file is read and unmarshalled, then validated
LoadConfig ==
    /\ config.main = "load"
    /\ config.err = "unloaded"
    /\ \E read \in BOOLEAN :
          config' = [config EXCEPT !.err =
                        IF read THEN validateConfig(config)
                        ELSE "failed to read config file"]
    /\ UNCHANGED <<db, now, nfail, pc, op, stack, pipe, res, cleanups,
                   createdOk, ncalls>>

\* main after config.Load: log.Fatalf on an error, else the repository is
\* built from cfg.Session and the server runs
StartServer ==
    /\ config.main = "load"
    /\ config.err # "unloaded"
    /\ config' = [config EXCEPT !.main =
                     IF config.err = "nil" THEN "serving" ELSE "fatal"]
    /\ UNCHANGED <<db, now, nfail, pc, op, stack, pipe, res, cleanups,
                   createdOk, ncalls>>

\* the configurations a file can give
InitConfig ==
    /\ Idle
    /\ config \in { Config(sp, rp, d, mx, mn, "load", "unloaded") :
                      sp \in Ports, rp \in Ports,
                      d \in Durations, mx \in Durations, mn \in Durations }

NextConfig == LoadConfig \/ StartServer

SpecConfig == InitConfig /\ [][NextConfig]_vars

\* sessions that share an IMSI or an MSISDN, and the service's query
QueryInputs ==
    { Input(TMSI_A, IMSI_1, MSISDN_1, "gNB001"),
      Input(TMSI_B, IMSI_1, MSISDN_2, "gNB001"),
      Input(TMSI_B, IMSI_2, MSISDN_1, "gNB001") }

NextQuery ==
    \/ \E s \in QueryInputs : CallCreate("c1", s)
    \/ \E p \in Callers : \E imsi \in {"", IMSI_1}, msisdn \in {"", MSISDN_1} :
          CallQuerySessions(p, imsi, msisdn)
    \/ \E p \in Callers :
          \/ PipeStep(p)
          \/ PipeReturns(p)
          \/ SMembers(p)
          \/ MGet(p)
          \/ QueryReturns(p)
          \/ QueryFails(p)
    \/ Tick

SpecQuery == Init /\ [][NextQuery]_vars

\* ================================================================ claims
\* no operation and no cleanup is in progress
Quiet == \A p \in Procs : pc[p] \in {"idle", "done"}

\* equal in every field except the two timestamps
SameButTimestamps(a, b) ==
    /\ a.tmsi = b.tmsi
    /\ a.imsi = b.imsi
    /\ a.msisdn = b.msisdn
    /\ a.gnb = b.gnb
    /\ a.state = b.state
    /\ a.caps = b.caps

\* C1: a Get that follows the caller's successful Create of the same TMSI,
\* finds the record and meets no store failure, returns without error the
\* session that was created, timestamps aside.
C1_CreateGetRoundTrip ==
    \A p \in Callers :
        ( /\ op[p].kind = "Get"
          /\ op[p].made # NoSession
          /\ nfail = 0
          /\ \/ pc[p] = "crashed"
             \/ pc[p] = "done" /\ res[p].err # "NotFound" )
        => /\ pc[p] = "done"
           /\ res[p].err = "nil"
           /\ Len(res[p].sessions) = 1
           /\ SameButTimestamps(res[p].sessions[1], op[p].made)


\* the operations that create a record
CreateKinds == {"Create", "CreateSession"}

\* the step is one of p's own operation
Moves(p) == pc'[p] # pc[p] \/ pipe'[p] # pipe[p] \/ stack'[p] # stack[p]

\* what the store holds, expiry times aside
Content(d) == [k \in Keys |-> [kind |-> d[k].kind, str |-> d[k].str, set |-> d[k].set]]

\* C2: a Create for a TMSI whose record the caller has just created (and
\* which is still live) fails with AlreadyExists, and none of its steps
\* changes a stored record or the membership of an index set.
C2_DuplicateCreateRejected ==
    [][ \A p \in Callers :
          ( /\ op[p].kind \in CreateKinds
            /\ op[p].made # NoSession
            /\ nfail' = 0
            /\ Moves(p) )
          => /\ Content(db') = Content(db)
             /\ pc'[p] = "done" => res'[p].err = "AlreadyExists" ]_vars

\* p returns from a Create without error in this step
CreateSucceeds(p) ==
    /\ op[p].kind \in CreateKinds
    /\ pc[p] # "done"
    /\ pc'[p] = "done"
    /\ res'[p].err = "nil"

\* C3: a Create never succeeds for a TMSI for which a Create has succeeded
\* already, unless a Delete succeeded or the record expired in between.
C3_AtMostOneCreateSucceeds ==
    [][ \A p \in Callers :
          (CreateSucceeds(p) /\ nfail' = 0) => ~createdOk[op[p].id] ]_vars


\* the TMSI is in both index sets of the identifiers its record holds
Indexed(t) ==
    /\ t \in Members(IMSIIndexKey(Stored(t).imsi))
    /\ t \in Members(MSISDNIndexKey(Stored(t).msisdn))

\* C4: when nothing is in progress and no batch has failed, every live
\* record is in the index sets of its IMSI and of its MSISDN.
C4_LiveRecordIsIndexed ==
    (Quiet /\ nfail = 0) => \A t \in TMSIs : Live(t) => Indexed(t)

\* how often a query result holds a session of the TMSI
Count(sessions, t) ==
    Cardinality({n \in 1..Len(sessions) : sessions[n].tmsi = t})

\* the caller's query has returned and nothing else is in progress
QueryDone(p, kind) ==
    /\ pc[p] = "done"
    /\ op[p].kind = kind
    /\ res[p].err = "nil"
    /\ pc[Cleaner] = "idle"

\* C5: a query that has returned, with nothing in progress and no store
\* failure, holds every live record of the queried identifier exactly once.
C5_QueryComplete ==
    \A p \in Callers, t \in TMSIs :
        /\ (QueryDone(p, "QueryByIMSI") /\ nfail = 0
              /\ Live(t) /\ Stored(t).imsi = op[p].id)
           => Count(res[p].sessions, t) = 1
        /\ (QueryDone(p, "QueryByMSISDN") /\ nfail = 0
              /\ Live(t) /\ Stored(t).msisdn = op[p].id)
           => Count(res[p].sessions, t) = 1

\* C6: every session a query returns holds the queried identifier.
C6_QuerySound ==
    \A p \in Callers :
        /\ (pc[p] = "done" /\ op[p].kind = "QueryByIMSI" /\ nfail = 0)
           => \A n \in 1..Len(res[p].sessions) : res[p].sessions[n].imsi = op[p].id
        /\ (pc[p] = "done" /\ op[p].kind = "QueryByMSISDN" /\ nfail = 0)
           => \A n \in 1..Len(res[p].sessions) : res[p].sessions[n].msisdn = op[p].id


\* what QueryByIMSI / QueryByMSISDN return when they run undisturbed
QueryNow(k) ==
    LET tmsiList == MembersList(Members(k))
    IN Found([n \in 1..Len(tmsiList) |-> Reply(tmsiList[n])])
Returns(k, t) == Count(QueryNow(k), t) > 0

\* C7: once the caller's Delete has returned without error, the record is
\* gone (a Get finds no key and answers NotFound) and the TMSI is in neither
\* index set of the identifiers the record had.
C7_DeleteRemovesRecordAndIndex ==
    \A p \in Callers :
        (pc[p] = "done" /\ op[p].kind = "Delete" /\ res[p].err = "nil")
        => /\ Reply(op[p].id) = NoSession
           /\ op[p].id \notin Members(IMSIIndexKey(op[p].old.imsi))
           /\ op[p].id \notin Members(MSISDNIndexKey(op[p].old.msisdn))

\* a Delete returned without error before any key could expire: its DEL
\* removed a live record
C7_Witness ==
    \E p \in Callers :
        /\ pc[p] = "done" /\ op[p].kind = "Delete" /\ res[p].err = "nil"
        /\ now = 1
        /\ op[p].old.tmsi = op[p].id

\* C8: once the caller's Update has returned without error, a query by an
\* identifier the Update replaced does not return the record, and a query by
\* the new identifier returns it as long as the record is live.
C8_UpdateMovesIndexEntry ==
    \A p \in Callers :
        (pc[p] = "done" /\ op[p].kind = "Update" /\ res[p].err = "nil")
        => /\ op[p].old.imsi # op[p].s.imsi
              => /\ ~Returns(IMSIIndexKey(op[p].old.imsi), op[p].id)
                 /\ Live(op[p].id) => Returns(IMSIIndexKey(op[p].s.imsi), op[p].id)
           /\ op[p].old.msisdn # op[p].s.msisdn
              => /\ ~Returns(MSISDNIndexKey(op[p].old.msisdn), op[p].id)
                 /\ Live(op[p].id) => Returns(MSISDNIndexKey(op[p].s.msisdn), op[p].id)

\* the cleanup goroutine's next command takes the TMSI out of an index set
\* of the identifiers of its live record
RemovesLiveEntry ==
    /\ pc[Cleaner] = "exec"
    /\ pipe[Cleaner] # << >>
    /\ LET cmd == Head(pipe[Cleaner])
           t == op[Cleaner].id
       IN /\ cmd.c = "SREM"
          /\ Live(t)
          /\ t \in Members(cmd.k)
          /\ cmd.k \in {IMSIIndexKey(Stored(t).imsi), MSISDNIndexKey(Stored(t).msisdn)}

\* C9: no command of a cleanup removes the TMSI from an index set of a
\* record that is live when the command is applied.
C9_CleanupSparesLiveRecords ==
    [][ ~(RemovesLiveEntry /\ pipe'[Cleaner] = Tail(pipe[Cleaner])) ]_vars

\* C10: when a Get returns a session and no store failure has occurred, the
\* record key and the index keys of the session's IMSI and MSISDN have the
\* default TTL left.
C10_GetRenewsTTL ==
    [][ \A p \in Callers :
          ( /\ op[p].kind = "Get"
            /\ pc[p] # "done"
            /\ pc'[p] = "done"
            /\ res'[p].err = "nil"
            /\ nfail' = 0 )
          => LET session == res'[p].sessions[1]
             IN /\ db'[SessionKey(op[p].id)].ttl = DefaultTTL
                /\ db'[IMSIIndexKey(session.imsi)].ttl = DefaultTTL
                /\ db'[MSISDNIndexKey(session.msisdn)].ttl = DefaultTTL ]_vars

\* C11: a Get whose read of the record succeeded returns, whenever it
\* returns, no error and exactly the session it read; what the TTL renewal
\* met (a store error, the record gone) does not reach the caller.
C11_RenewalFailureNotPropagated ==
    [][ \A p \in Callers :
          ( /\ op[p].kind = "Get"
            /\ pc[p] \in {"get", "renew"}
            /\ stack[p] # << >>
            /\ pc'[p] = "done" )
          => res'[p] = Result("nil", << stack[p][1] >>) ]_vars

\* a Get right after the Create returned the record although the store
\* failed during the renewal (the record is still there, no time has passed)
C11_Witness ==
    \E p \in Callers :
        /\ pc[p] = "done" /\ op[p].kind = "Get" /\ res[p].err = "nil"
        /\ Len(res[p].sessions) = 1
        /\ nfail = 1 /\ now = 1 /\ ncalls = 2
        /\ Live(op[p].id)

\* C12: the step in which a Get reads a TMSI that has no record, the store
\* answering, ends the Get with NotFound and no session and leaves every key
\* of the store as it was.
C12_GetMissingIsNotFound ==
    [][ \A p \in Callers :
          ( /\ op[p].kind = "Get"
            /\ pc[p] = "get"
            /\ stack[p] = << >>
            /\ ~Live(op[p].id)
            /\ pc'[p] # pc[p]
            /\ nfail' = nfail )
          => /\ pc'[p] = "done"
             /\ res'[p] = Result("NotFound", << >>)
             /\ db' = db ]_vars

\* a Get of a TMSI without record has returned NotFound
C12_Witness ==
    \E p \in Callers :
        /\ pc[p] = "done" /\ op[p].kind = "Get" /\ res[p].err = "NotFound"
        /\ ~Live(op[p].id)
        /\ \A k \in Keys : ~Exists(k)

\* the operations that begin by reading the record of a TMSI
ByTMSI == {"Get", "Update", "Delete", "RenewTTL"}

\* C13: a record key always carries a TTL of at most the default, which only
\* a write or a renewal sets back, so a record left alone for DefaultTTL
\* ticks is gone; Get, Update, Delete and RenewTTL that read a TMSI whose
\* record is gone end with NotFound (no other error kind, the store
\* answering); and a Create whose batch the store applied returns success
\* whatever was stored under the TMSI before.
C13_ExpiryIsNotFound ==
    [][ /\ \A t \in TMSIs :
              Live(t) =>
                /\ db[SessionKey(t)].ttl \in 1..DefaultTTL
                /\ (now' = now + 1 /\ db[SessionKey(t)].ttl = 1) => ~Live(t)'
                /\ (now' = now + 1 /\ db[SessionKey(t)].ttl > 1) =>
                      db'[SessionKey(t)].ttl = db[SessionKey(t)].ttl - 1
        /\ \A p \in Callers :
              ( /\ op[p].kind \in ByTMSI
                /\ pc[p] = "get"
                /\ stack[p] = << >>
                /\ ~Live(op[p].id)
                /\ pc'[p] # pc[p]
                /\ nfail' = nfail )
              => /\ pc'[p] = "done"
                 /\ res'[p] = Result("NotFound", << >>)
        /\ \A p \in Callers :
              ( /\ op[p].kind \in CreateKinds
                /\ pc[p] = "exec"
                /\ pc'[p] = "done"
                /\ nfail' = nfail )
              => res'[p].err = "nil" ]_vars

\* an Update found no record for a TMSI that an index set still lists: the
\* record has expired (nothing was deleted, no store failure)
C13_Witness ==
    \E p \in Callers :
        /\ pc[p] = "done" /\ op[p].kind = "Update" /\ res[p].err = "NotFound"
        /\ nfail = 0
        /\ now > DefaultTTL
        /\ op[p].id \in Members(IMSIIndexKey(op[p].s.imsi))

\* the store after a whole batch, nothing else running in between
RECURSIVE Exec(_, _)
Exec(d, cmds) == IF cmds = << >> THEN d ELSE Exec(Apply(d, Head(cmds)), Tail(cmds))

\* C14: no step of a RenewTTL call changes a stored record or the
\* membership of an index set (only expiry times move), and the batch of
\* RenewTTL for a live record, run a second time, leaves the store as the
\* first run left it.
C14_RenewTTLPreservesContent ==
    [][ /\ \A p \in Callers :
              (op[p].kind = "RenewTTL" /\ Moves(p))
              => Content(db') = Content(db)
        /\ \A t \in TMSIs :
              Live(t) =>
                LET once == Exec(db, RenewPipe(Stored(t), t))
                IN /\ Content(once) = Content(db)
                   /\ Exec(once, RenewPipe(Stored(t), t)) = once ]_vars

\* a RenewTTL returned success on a record written at an earlier tick, and
\* the record has the full default TTL again
C14_Witness ==
    \E p \in Callers :
        /\ pc[p] = "done" /\ op[p].kind = "RenewTTL" /\ res[p].err = "nil"
        /\ Live(op[p].id)
        /\ Stored(op[p].id).last < now
        /\ db[SessionKey(op[p].id)].ttl = DefaultTTL

\* C15: a RenewTTL that reads a TMSI without record ends with NotFound; a
\* RenewTTL that returns success, the store never having failed, leaves the
\* record live and the record key and the index keys of the record's IMSI
\* and MSISDN with the default TTL.
C15_RenewTTLSetsDefaultTTL ==
    [][ \A p \in Callers :
          /\ ( /\ op[p].kind = "RenewTTL"
               /\ pc[p] = "get"
               /\ stack[p] = << >>
               /\ ~Live(op[p].id)
               /\ pc'[p] # pc[p]
               /\ nfail' = nfail )
             => res'[p].err = "NotFound"
          /\ ( /\ op[p].kind = "RenewTTL"
               /\ pc[p] = "exec"
               /\ pc'[p] = "done"
               /\ res'[p].err = "nil"
               /\ nfail' = 0 )
             => /\ Live(op[p].id)'
                /\ db'[SessionKey(op[p].id)].ttl = DefaultTTL
                /\ db'[IMSIIndexKey(Stored(op[p].id).imsi)].ttl = DefaultTTL
                /\ db'[MSISDNIndexKey(Stored(op[p].id).msisdn)].ttl = DefaultTTL ]_vars

\* C16: an Update that reads a TMSI without record, the store answering,
\* ends there with NotFound and has changed no key: no record key appears
\* and no index set gains the TMSI.
C16_UpdateMissingIsNotFound ==
    [][ \A p \in Callers :
          ( /\ op[p].kind = "Update"
            /\ pc[p] = "get"
            /\ stack[p] = << >>
            /\ ~Live(op[p].id)
            /\ Moves(p)
            /\ nfail' = nfail )
          => /\ pc'[p] = "done"
             /\ res'[p] = Result("NotFound", << >>)
             /\ db' = db ]_vars

\* an Update of a TMSI nobody created has returned NotFound and the store
\* is still empty
C16_Witness ==
    \E p \in Callers :
        /\ pc[p] = "done" /\ op[p].kind = "Update" /\ res[p].err = "NotFound"
        /\ op[p].s.imsi = IMSI_2
        /\ \A k \in Keys : ~Exists(k)

\* C17: no step of an Update, a Get or a RenewTTL changes the creation
\* timestamp of a record that is live before and after the step, and the
\* record an Update writes carries as last-update timestamp the time the
\* Update took (not the one of its argument).
C17_AttachTimeImmutable ==
    [][ \A p \in Callers :
          (op[p].kind \in {"Update", "Get", "RenewTTL"} /\ Moves(p))
          => /\ \A t \in TMSIs :
                   (Live(t) /\ Live(t)') => Stored(t)'.attach = Stored(t).attach
             /\ ( /\ op[p].kind = "Update"
                  /\ pc[p] = "exec"
                  /\ pipe[p] # << >>
                  /\ pipe'[p] = Tail(pipe[p])
                  /\ Head(pipe[p]).c = "SET"
                  /\ nfail' = nfail )
                => /\ Stored(op[p].id)'.last = op[p].s.last
                   /\ op[p].s.last \in 1..now ]_vars

\* an Update returned success on a record that has been live ever since its
\* Create at an earlier tick: the creation timestamp is the one Update read,
\* the last-update timestamp is later
C17_Witness ==
    \E p \in Callers :
        /\ pc[p] = "done" /\ op[p].kind = "Update" /\ res[p].err = "nil"
        /\ createdOk[op[p].id]
        /\ Live(op[p].id)
        /\ Stored(op[p].id).attach = op[p].old.attach
        /\ Stored(op[p].id).last > Stored(op[p].id).attach

\* C18: a Delete that reads a TMSI without record, the store answering,
\* ends there with NotFound and has changed no record key and no index set.
C18_DeleteMissingIsNotFound ==
    [][ \A p \in Callers :
          ( /\ op[p].kind = "Delete"
            /\ pc[p] = "get"
            /\ stack[p] = << >>
            /\ ~Live(op[p].id)
            /\ Moves(p)
            /\ nfail' = nfail )
          => /\ pc'[p] = "done"
             /\ res'[p] = Result("NotFound", << >>)
             /\ db' = db ]_vars

\* a Delete found no record for a TMSI whose index entries are still there
\* (the record has expired), returned NotFound and left them
C18_Witness ==
    \E p \in Callers :
        /\ pc[p] = "done" /\ op[p].kind = "Delete" /\ res[p].err = "NotFound"
        /\ nfail = 0
        /\ \E i \in IMSIs : op[p].id \in Members(IMSIIndexKey(i))

\* C19: when a Create returns success within the tick in which it stamped
\* the session, every command of its batch has been applied: the record key
\* exists and holds the stamped session, the TMSI is in the index sets of
\* the session's IMSI and MSISDN, and the three keys have the default TTL.
C19_CreateWritesRecordAndIndexes ==
    [][ \A p \in Callers :
          ( /\ op[p].kind \in CreateKinds
            /\ pc[p] = "exec"
            /\ pc'[p] = "done"
            /\ res'[p].err = "nil"
            /\ op[p].s.last = now )
          => /\ pipe[p] = << >>
             /\ Live(op[p].id)
             /\ Stored(op[p].id) = op[p].s
             /\ op[p].id \in Members(IMSIIndexKey(op[p].s.imsi))
             /\ op[p].id \in Members(MSISDNIndexKey(op[p].s.msisdn))
             /\ db[SessionKey(op[p].id)].ttl = DefaultTTL
             /\ db[IMSIIndexKey(op[p].s.imsi)].ttl = DefaultTTL
             /\ db[MSISDNIndexKey(op[p].s.msisdn)].ttl = DefaultTTL ]_vars

\* C20: when the batch of GETs of a query has been answered, the query
\* returns no error and exactly the records the GETs found: one for every
\* listed TMSI whose GET found a record, none for a TMSI whose GET found
\* nothing, however many are missing.
C20_QueryFiltersMissing ==
    [][ \A p \in Callers :
          ( /\ pc[p] = "mget"
            /\ pc'[p] = "done"
            /\ nfail' = nfail )
          => LET replies == stack[p]
                 out == res'[p].sessions
                 hits == { n \in 1..Len(replies) : replies[n] # NoSession }
             IN /\ Len(replies) = Len(op[p].list)
                /\ res'[p].err = "nil"
                /\ Len(out) = Cardinality(hits)
                /\ \A n \in hits :
                      /\ replies[n].tmsi = op[p].list[n]
                      /\ \E m \in 1..Len(out) : out[m] = replies[n]
                /\ \A m \in 1..Len(out) :
                      \E n \in hits : out[m] = replies[n] ]_vars

\* a query has returned one record for an index set of two TMSIs, the
\* record of the other being gone
C20_Witness ==
    \E p \in Callers :
        /\ pc[p] = "done" /\ op[p].kind \in {"QueryByIMSI", "QueryByMSISDN"}
        /\ res[p].err = "nil"
        /\ Len(op[p].list) = 2
        /\ Len(res[p].sessions) = 1

IndexKeys == {IMSIIndexKey(i) : i \in IMSIs} \cup {MSISDNIndexKey(m) : m \in MSISDNs}

\* C22: when nothing is running and no cleanup is pending, an index entry
\* whose TMSI has no record sits in a key that carries a TTL of at most the
\* default, so the entry is gone within that window.
C22_DanglingEntriesExpire ==
    (Quiet /\ cleanups = {})
    => \A t \in TMSIs, k \in IndexKeys :
          (~Live(t) /\ t \in Members(k)) => db[k].ttl \in 1..DefaultTTL

\* the operations that write the record or the index entries of a TMSI
Mutating == {"Create", "CreateSession", "Update", "Delete"}

\* no caller is inside a mutating operation on the TMSI
NoMutation(t) ==
    \A p \in Callers :
        pc[p] \in {"idle", "done", "crashed"} \/ op[p].kind \notin Mutating \/ op[p].id # t

StoreCallFails(p) == nfail' = nfail + 1 /\ Moves(p)

InRenewal(p) == pc[p] \in {"get", "renew"} /\ stack[p] # << >>

\* C25: a store call of an operation that fails for another reason than a
\* missing key (the renewal inside Get aside) ends the operation with the
\* store's error, which is none of the domain errors, and never with success;
\* and an operation returns NotFound only when the record key is absent.
C25_StoreFailureIsOpaque ==
    [][ \A p \in Callers :
          /\ (StoreCallFails(p) /\ ~InRenewal(p))
             => /\ pc'[p] = "done"
                /\ res'[p] = Result("StoreError", << >>)
          /\ (pc[p] # "done" /\ pc'[p] = "done" /\ res'[p].err = "NotFound")
             => ~Live(op[p].id) ]_vars


\* the batch an operation issued, as far as its length goes
FullPipe(o) ==
    CASE o.kind \in CreateKinds -> CreatePipe(o.s)
      [] o.kind = "Update" -> UpdatePipe(o.old, o.s)
      [] o.kind = "Delete" -> DeletePipe(o.old, o.id)
      [] OTHER -> RenewPipe(NoSession, o.id)

\* pipe.Exec failed with some commands applied and some not
PartlyApplied(p) ==
    /\ pc[p] = "exec"
    /\ pipe[p] # << >>
    /\ Len(pipe[p]) < Len(FullPipe(op[p]))

\* The store after the same invocation is made again, alone and without a
\* store failure, in the cases in which its read of the record returns at
\* once: Create does not read, the others find the key absent.
Retry(d, o) ==
    IF o.kind = "Create" \/ (o.kind = "CreateSession" /\ d[SessionKey(o.id)].kind = "none")
    THEN Exec(d, CreatePipe(Stamp(o.s)))
    ELSE d

\* what one fully applied invocation leaves: the record and the membership
\* of the index sets it names
FullyApplied(o, d) ==
    LET k == SessionKey(o.id)
        in(i, m) == /\ o.id \in d[IMSIIndexKey(i)].set
                    /\ o.id \in d[MSISDNIndexKey(m)].set
    IN CASE o.kind \in CreateKinds ->
              /\ d[k].kind = "string"
              /\ SameButTimestamps(Unmarshal(d[k].str), o.s)
              /\ in(o.s.imsi, o.s.msisdn)
         [] o.kind = "Update" ->
              /\ d[k].kind = "string"
              /\ SameButTimestamps(Unmarshal(d[k].str), o.s)
              /\ in(o.s.imsi, o.s.msisdn)
              /\ o.old.imsi # o.s.imsi => o.id \notin d[IMSIIndexKey(o.old.imsi)].set
              /\ o.old.msisdn # o.s.msisdn
                    => o.id \notin d[MSISDNIndexKey(o.old.msisdn)].set
         [] o.kind = "Delete" ->
              /\ d[k].kind = "none"
              /\ o.id \notin d[IMSIIndexKey(o.old.imsi)].set
              /\ o.id \notin d[MSISDNIndexKey(o.old.msisdn)].set
         [] OTHER -> Content(d) = Content(db)

\* C26: when the batch of a Create, Update, Delete or RenewTTL fails partly
\* applied and the caller makes the same invocation again at once, without a
\* store failure (a Create, or any of them when the record key is absent, so
\* that the retry's read returns), the store holds what one fully applied
\* invocation leaves.
C26_SafeRetry ==
    [][ \A p \in Callers :
          ( /\ StoreCallFails(p)
            /\ PartlyApplied(p)
            /\ op[p].kind = "Create" \/ ~Live(op[p].id) )
          => FullyApplied(op[p], Retry(db, op[p])) ]_vars


\* ValidationError.Field of an error ("" when it is no ValidationError)
Field(err) ==
    CASE err = "ErrInvalidTMSI" -> "tmsi"
      [] err = "ErrInvalidIMSI" -> "imsi"
      [] err = "ErrInvalidMSISDN" -> "msisdn"
      [] OTHER -> ""

\* the first identifier that is empty or too short ("" when none is)
Offending(s) ==
    IF s.tmsi = "" \/ Len(s.tmsi) < 4 THEN "tmsi"
    ELSE IF s.imsi = "" \/ Len(s.imsi) < 14 THEN "imsi"
    ELSE IF s.msisdn = "" \/ Len(s.msisdn) < 10 THEN "msisdn"
    ELSE ""

\* the step is a call made by p
Called(p) ==
    /\ ncalls' = ncalls + 1
    /\ \A q \in Callers \ {p} : pc'[q] = pc[q] /\ op'[q] = op[q] /\ res'[q] = res[q]

\* C27: a Create or CreateSession whose session has an empty or too short
\* TMSI, IMSI or MSISDN returns at once a ValidationError that names that
\* field, and no step of it changes the store.
C27_CreateValidates ==
    [][ \A p \in Callers :
          /\ (Called(p) /\ op'[p].kind \in CreateKinds /\ Offending(op'[p].s) # "")
             => /\ pc'[p] = "done"
                /\ Field(res'[p].err) = Offending(op'[p].s)
          /\ (op[p].kind \in CreateKinds /\ Offending(op[p].s) # "" /\ Moves(p))
             => db' = db ]_vars

\* validateSessionForUpdate
validateSessionForUpdate(s) ==
    IF s.tmsi = "" THEN "ErrInvalidTMSI"
    ELSE IF s.imsi = "" THEN "ErrInvalidIMSI"
    ELSE IF s.msisdn = "" THEN "ErrInvalidMSISDN"
    ELSE "nil"

\* C28: an Update whose session has an empty or too short TMSI, IMSI or
\* MSISDN is rejected by the validation of UpdateSession and of Update,
\* returns at once a ValidationError, and no step of it changes the store.
C28_UpdateValidates ==
    [][ \A p \in Callers :
          /\ (Called(p) /\ op'[p].kind = "Update" /\ Offending(op'[p].s) # "")
             => /\ validateSessionForUpdate(op'[p].s) # "nil"
                /\ pc'[p] = "done"
                /\ Field(res'[p].err) # ""
          /\ (op[p].kind = "Update" /\ Offending(op[p].s) # "" /\ Moves(p))
             => db' = db ]_vars


Queries == {"QueryByIMSI", "QueryByMSISDN"}

\* C29: a query with an empty identifier returns at once the validation
\* error of that identifier; a query that finds its index set without
\* members, or whose batch of GETs finds no record at all, returns without
\* error and with no session.
C29_QueryEmptyCases ==
    [][ \A p \in Callers :
          /\ (Called(p) /\ op'[p].kind \in Queries /\ op'[p].id = "")
             => /\ pc'[p] = "done"
                /\ Field(res'[p].err)
                     = (IF op'[p].kind = "QueryByIMSI" THEN "imsi" ELSE "msisdn")
          /\ ( /\ op[p].kind \in Queries
               /\ pc[p] = "smembers" /\ pc'[p] # "smembers" /\ nfail' = nfail
               /\ Members(IndexKey(op[p])) = {} )
             => /\ pc'[p] = "done"
                /\ res'[p] = Result("nil", << >>)
          /\ ( /\ op[p].kind \in Queries
               /\ pc[p] = "mget" /\ pc'[p] = "done" /\ nfail' = nfail
               /\ \A n \in 1..Len(stack[p]) : stack[p][n] = NoSession )
             => res'[p] = Result("nil", << >>) ]_vars

\* a query found members in its index set, none of them with a record, and
\* returned no session and no error
C29_Witness ==
    \E p \in Callers :
        /\ pc[p] = "done" /\ op[p].kind \in Queries
        /\ op[p].list # << >>
        /\ res[p] = Result("nil", << >>)
        /\ \A n \in 1..Len(op[p].list) : ~Live(op[p].list[n])


C33_GetTerminates ==
    nfail = 0 => \A p \in Procs : pc[p] # "crashed"


\* the step applies the first command of p's batch
AppliesFirst(p, c) ==
    /\ pc[p] = "exec"
    /\ pipe[p] # << >>
    /\ Head(pipe[p]).c = c
    /\ pipe'[p] = Tail(pipe[p])
    /\ nfail' = nfail

\* C35: when the SET of an Update is applied while the record of its TMSI is
\* absent (deleted or expired since Update read it), the record stays absent.
C35_UpdateNeverCreates ==
    [][ \A p \in Callers :
          (op[p].kind = "Update" /\ AppliesFirst(p, "SET") /\ ~Live(op[p].id))
          => ~Live(op[p].id)' ]_vars


\* C36: when nothing is in progress, every key that exists carries an expiry
\* of at most the default TTL.
C36_EveryKeyExpires ==
    Quiet => \A k \in Keys : Exists(k) => db[k].ttl \in 1..DefaultTTL


\* the expiry of key k is not earlier than that of key r (no expiry is latest)
Outlives(k, r) ==
    \/ db[k].ttl = NoExpiry
    \/ db[r].ttl # NoExpiry /\ db[k].ttl >= db[r].ttl

\* C34: when nothing is in progress and no store call has failed, the index
\* sets that list a live record under its IMSI and its MSISDN do not expire
\* before the record does.
C34_IndexOutlivesRecord ==
    (Quiet /\ nfail = 0) =>
      \A t \in TMSIs :
        (Live(t) /\ Indexed(t))
        => /\ Outlives(IMSIIndexKey(Stored(t).imsi), SessionKey(t))
           /\ Outlives(MSISDNIndexKey(Stored(t).msisdn), SessionKey(t))


\* C39: when the record read of CreateSession's existence check fails for
\* another reason than a missing key, CreateSession returns the store's error
\* in that step and the store is left as it was.
C39_CreateSessionStopsOnReadError ==
    [][ \A p \in Callers :
          ( /\ op[p].kind = "CreateSession"
            /\ pc[p] = "get" /\ stack[p] = << >>
            /\ StoreCallFails(p) )
          => /\ pc'[p] = "done"
             /\ res'[p] = Result("StoreError", << >>)
             /\ pipe'[p] = << >>
             /\ db' = db ]_vars


\* C38: no step of a Delete(t) changes the record of another TMSI or the
\* membership of another TMSI in any index set, and an index set that still
\* has another member is not removed.
C38_DeleteFrame ==
    [][ \A p \in Callers :
          (op[p].kind = "Delete" /\ Moves(p))
          => \A u \in TMSIs \ {op[p].id} :
                /\ db'[SessionKey(u)] = db[SessionKey(u)]
                /\ \A k \in IndexKeys :
                      /\ (u \in Members(k)) = (u \in Members(k)')
                      /\ u \in Members(k) => db'[k].ttl = db[k].ttl ]_vars

\* a Delete has succeeded while another TMSI is live and listed in the IMSI
\* index set the deleted record was in
C38_Witness ==
    \E p \in Callers :
        /\ pc[p] = "done" /\ op[p].kind = "Delete" /\ res[p].err = "nil"
        /\ op[p].old # NoSession
        /\ ~Live(op[p].id)
        /\ \E u \in TMSIs \ {op[p].id} :
              /\ Live(u)
              /\ Stored(u).imsi = op[p].old.imsi
              /\ u \in Members(IMSIIndexKey(op[p].old.imsi))


\* SessionHandler.handleError: the HTTP status written for an error
handleError(err) ==
    CASE err = "NotFound" -> 404
      [] err = "Expired" -> 410
      [] err \in {"ErrInvalidTMSI", "ErrInvalidIMSI", "ErrInvalidMSISDN"} -> 400
      [] OTHER -> 500

\* SessionHandler.Create: the status of POST /sessions for what CreateSession
\* returned
CreateStatus(err) == IF err = "nil" THEN 201 ELSE handleError(err)

\* C32: a CreateSession that found a live session for its TMSI is answered
\* with status 409.
C32_DuplicateIsConflict ==
    \A p \in Callers :
        ( /\ pc[p] = "done" /\ op[p].kind = "CreateSession"
          /\ res[p].err = "AlreadyExists" )
        => CreateStatus(res[p].err) = 409


\* C37: no step of a Get or a RenewTTL, and no step of the Get and the
\* renewal inside another operation, creates a key, adds a member to an index
\* set or changes a stored value; a record that a Delete has removed is
\* still absent after the EXPIRE commands of a renewal.
C37_RenewalNeverCreates ==
    [][ \A p \in Callers :
          ( /\ op[p].kind \in {"Get", "RenewTTL"} \/ pc[p] \in {"get", "renew"}
            /\ Moves(p) )
          => Content(db') = Content(db) ]_vars

\* a RenewTTL has applied its batch and returned after a concurrent Delete
\* removed the record it had read
C37_Witness ==
    \E p, q \in Callers :
        /\ pc[p] = "done" /\ op[p].kind = "RenewTTL" /\ res[p].err = "nil"
        /\ op[q].kind = "Delete" /\ op[q].old # NoSession
        /\ now = 1
        /\ createdOk[TMSI_A]
        /\ \A k \in Keys : ~Exists(k)


\* C31: a configuration that config.Load accepts, and one the server runs
\* with, has 0 < min TTL <= default TTL <= max TTL; a configuration that
\* breaks min <= default <= max is rejected once it is loaded and the server
\* never runs with it.
C31_LoadAcceptsOrdered ==
    LET c == config.Session
        ordered == c.MinTTL <= c.DefaultTTL /\ c.DefaultTTL <= c.MaxTTL
    IN /\ (config.err = "nil" \/ config.main = "serving")
            => (0 < c.MinTTL /\ ordered)
       /\ (config.err # "unloaded" /\ ~ordered)
            => (config.err # "nil" /\ config.main # "serving")

\* the server runs with a configuration read from a file whose three
\* durations differ
C31_Witness ==
    /\ config.main = "serving"
    /\ config.Session.MinTTL < config.Session.DefaultTTL
    /\ config.Session.DefaultTTL < config.Session.MaxTTL
    /\ config # Serving


\* what the query of the repository that QuerySessions is in returns when
\* it returns without error
Answer(p) == IF pc[p] = "smembers" THEN << >> ELSE Found(stack[p])
InSeq(sessions) == { sessions[n] : n \in DOMAIN sessions }

\* C40: when QuerySessions returns with both identifiers given, the TMSIs
\* of its result are those of the IMSI query's result and of the MSISDN
\* query's result together, no TMSI twice, every session taken from one of
\* the two results; with one identifier given its result is that query's
\* result; when a query of the repository fails, QuerySessions returns the
\* error at once and no session.
C40_QuerySessionsMerges ==
    [][ \A p \in Callers :
          (op[p].kind = "QuerySessions" /\ Moves(p)) =>
             LET q == op[p].query
                 out == res'[p]
             IN /\ nfail' # nfail =>
                      pc'[p] = "done" /\ out = Result("StoreError", << >>)
                /\ (nfail' = nfail /\ pc'[p] = "done" /\ pc[p] # "done") =>
                      /\ out.err = "nil"
                      /\ IF q.imsi # "" /\ q.msisdn # ""
                         THEN /\ q.by = "MSISDN"
                              /\ TMSIsIn(out.sessions)
                                   = TMSIsIn(q.first) \cup TMSIsIn(Answer(p))
                              /\ Len(out.sessions)
                                   = Cardinality(TMSIsIn(out.sessions))
                              /\ InSeq(out.sessions)
                                   \subseteq InSeq(q.first) \cup InSeq(Answer(p))
                         ELSE out.sessions = Answer(p) ]_vars

\* QuerySessions has returned two sessions, one of them found by both
\* queries
C40_Witness ==
    \E p \in Callers :
        /\ pc[p] = "done" /\ op[p].kind = "QuerySessions" /\ res[p].err = "nil"
        /\ op[p].query.imsi # "" /\ op[p].query.msisdn # ""
        /\ Len(res[p].sessions) = 2
        /\ Len(op[p].query.first) = 2
        /\ \E n \in DOMAIN op[p].list : op[p].list[n] \in TMSIsIn(op[p].query.first)
        /\ \A n \in DOMAIN op[p].list : Live(op[p].list[n])

====
